---- MODULE Spec2Model ----
(***************************************************************************)
(* service-customer over its relational store: the default-item subsystem  *)
(* (address and measurement collections), the wishlist and the             *)
(* back-in-stock subscription registry.                                    *)
(*                                                                         *)
(* The store is PostgreSQL (cmd/server/main.go opens it through gorm with  *)
(* no transaction options), so a gorm Transaction runs at the store's      *)
(* default isolation, READ COMMITTED: every statement reads the rows       *)
(* committed when it starts plus the transaction's own writes; an UPDATE   *)
(* or DELETE picks its rows from that snapshot, waits for the row locks of *)
(* other transactions, and re-evaluates its WHERE clause on the latest     *)
(* committed version of the rows it picked (never on rows it did not       *)
(* pick).  A statement outside a transaction commits by itself.            *)
(***************************************************************************)
EXTENDS Integers, FiniteSets, Sequences, TLC

\* Rows the store holds, over both tables (ids are never reused).
MaxRows == 2

Ids == 1 .. MaxRows
Users == {"u1", "u2"}
Procs == {"p1", "p2"}
NoUser == "-"

\* One row of customer.addresses / crm.customer_measurements: the columns
\* the default-flag logic reads and writes (id is the index).
Live(u, d) == [st |-> "live", owner |-> u, def |-> d]
Unused == [st |-> "unused", owner |-> NoUser, def |-> FALSE]
Deleted == [st |-> "deleted", owner |-> NoUser, def |-> FALSE]
Untouched == [st |-> "untouched", owner |-> NoUser, def |-> FALSE]
EmptyTable == [i \in Ids |-> Unused]
NoWrites == [i \in Ids |-> Untouched]
NoCall == [op |-> "none", tbl |-> "addr", id |-> 0, user |-> NoUser,
           req |-> "nil", def |-> FALSE, at |-> "-"]

VARIABLES
    addresses,      \* committed rows of customer.addresses
    measurements,   \* committed rows of crm.customer_measurements
    pc,             \* pc[p]: the store call request p is at
    call,           \* call[p]: the request and the struct it carries
    cand,           \* cand[p]: rows the running statement picked from its snapshot
    writes,         \* writes[p]: uncommitted row versions of p's transaction
    res,            \* res[p]: what the request returned
    before,         \* both tables as they were when the sequential request began
    wishlist_items, \* committed rows of customer.wishlist_items, counted per key
    wreq,           \* wreq[p]: the wishlist request p serves and where it is
    wseen,          \* wishlist_items as the sequential request found it
    subscriptions,  \* rows of customer.back_in_stock_subscriptions
    clock,          \* the store's NOW()
    breq,           \* breq[p]: the back-in-stock request or event p serves
    bseen,          \* subscriptions as the sequential request found them
    keyed,          \* two (product, variant) pairs and the keys computed for them
    notifier,       \* the restock subscriber: its client and the event it handles
    outbox,         \* what the notification client was asked to send, and sent
    nseen           \* subscriptions as the event's GetByProduct read them

DefaultState == <<addresses, measurements, pc, call, cand, writes, res, before>>
WishState == <<wishlist_items, wreq, wseen>>
BisState == <<subscriptions, clock, breq, bseen>>
NotifyState == <<notifier, outbox, nseen>>
vars == <<DefaultState, WishState, BisState, keyed, NotifyState>>

Table(t) == IF t = "addr" THEN addresses ELSE measurements

\* What a statement of p's transaction reads: committed rows under p's own writes.
View(p) ==
    [i \in Ids |-> IF writes[p][i].st # "untouched" THEN writes[p][i]
                   ELSE Table(call[p].tbl)[i]]

\* Rows another open transaction on the same table holds a row lock on.
Locked(p) ==
    {i \in Ids : \E q \in Procs \ {p} :
        call[q].tbl = call[p].tbl /\ writes[q][i].st # "untouched"}

CanLock(p, S) == S \cap Locked(p) = {}

\* uuid.New() in BeforeCreate: an id no row and no running request has.
Allocated ==
    {<<"addr", i>> : i \in {j \in Ids : addresses[j].st # "unused"}}
    \cup {<<"meas", i>> : i \in {j \in Ids : measurements[j].st # "unused"}}
    \cup {<<call[q].tbl, call[q].id>> :
             q \in {r \in Procs : call[r].op \in {"AddrCreate", "MeasCreate"}}}
FreshIds(t) ==
    IF Cardinality(Allocated) < MaxRows
    THEN {i \in Ids : <<t, i>> \notin Allocated} ELSE {}
NewId(t) == CHOOSE i \in FreshIds(t) : \A j \in FreshIds(t) : i <= j

\* WHERE user_id = ? AND is_default = true
DefaultsOf(t, u) == {i \in Ids : t[i].st = "live" /\ t[i].owner = u /\ t[i].def}
\* WHERE user_id = ?
RowsOf(t, u) == {i \in Ids : t[i].st = "live" /\ t[i].owner = u}
\* WHERE id = ? AND user_id = ?
Owned(t, i, u) == t[i].st = "live" /\ t[i].owner = u

Goto(p, l) == pc' = [pc EXCEPT ![p] = l]
Tables == <<addresses, measurements>>

\* Start of an UPDATE / DELETE: the statement snapshot picks the rows S.
Pick(p, S, l) ==
    /\ cand' = [cand EXCEPT ![p] = S]
    /\ Goto(p, l)
    /\ UNCHANGED <<Tables, call, writes, res>>

\* Update("is_default", d) on the rows S, inside p's transaction.
SetFlag(p, S, d) ==
    writes' = [writes EXCEPT ![p] =
        [i \in Ids |-> IF i \in S THEN [View(p)[i] EXCEPT !.def = d] ELSE @[i]]]

\* A full-row write (INSERT, or Save's UPDATE of every column) of row i.
PutRow(p, i, row) == writes' = [writes EXCEPT ![p][i] = row]

\* What tx.Commit leaves in the table.
Committed(p) == View(p)

\* What tx.Rollback leaves in the table.
RolledBackPartial(p) == View(p)
RolledBack(p) == Table(call[p].tbl)

SetTable(t, v) ==
    IF t = "addr" THEN addresses' = v /\ UNCHANGED measurements
    ELSE measurements' = v /\ UNCHANGED addresses

Finish(p, r) ==
    /\ Goto(p, "done")
    /\ res' = [res EXCEPT ![p] = r]
    /\ cand' = [cand EXCEPT ![p] = {}]

(***************************************************************************)
(* AddressHandler + AddressRepository                                      *)
(***************************************************************************)

\* POST /addresses: the handler builds the struct and calls repo.Create.
CreateAddress(p) ==
    /\ pc[p] = "idle"
    /\ FreshIds("addr") # {}
    /\ \E u \in Users, d \in BOOLEAN :
          /\ call' = [call EXCEPT ![p] = [op |-> "AddrCreate", tbl |-> "addr",
                         id |-> NewId("addr"), user |-> u,
                         req |-> IF d THEN "true" ELSE "false", def |-> d, at |-> "-"]]
          /\ Goto(p, IF d THEN "clear" ELSE "insert")
    /\ res' = [res EXCEPT ![p] = "none"]
    /\ UNCHANGED <<Tables, cand, writes>>

\* Create: rows the clear statement addresses.
AddrCreateClearNone(t, u) == {}
AddrCreateClearScope(t, u) == DefaultsOf(t, u)

AddrCreateClear(p) ==
    /\ call[p].op = "AddrCreate" /\ pc[p] = "clear"
    /\ Pick(p, AddrCreateClearScope(View(p), call[p].user), "clear_w")

AddrCreateClearApply(p) ==
    /\ call[p].op = "AddrCreate" /\ pc[p] = "clear_w"
    /\ CanLock(p, cand[p])
    /\ SetFlag(p, cand[p] \cap AddrCreateClearScope(View(p), call[p].user), FALSE)
    /\ Goto(p, "insert")
    /\ UNCHANGED <<Tables, call, cand, res>>

AddrCreateInsert(p) ==
    /\ call[p].op = "AddrCreate" /\ pc[p] = "insert"
    /\ PutRow(p, call[p].id, Live(call[p].user, call[p].def))
    /\ Goto(p, "commit")
    /\ UNCHANGED <<Tables, call, cand, res>>

\* PUT /addresses/:id: GetByID (outside any transaction), the request's
\* is_default applied to the struct when given, then repo.Update.
UpdateAddress(p) ==
    /\ pc[p] = "idle"
    /\ \E i \in Ids, u \in Users, r \in {"nil", "true", "false"} :
          call' = [call EXCEPT ![p] = [op |-> "AddrUpdate", tbl |-> "addr",
                      id |-> i, user |-> u, req |-> r, def |-> FALSE, at |-> "-"]]
    /\ Goto(p, "get")
    /\ res' = [res EXCEPT ![p] = "none"]
    /\ UNCHANGED <<Tables, cand, writes>>

AddrUpdateGet(p) ==
    /\ call[p].op = "AddrUpdate" /\ pc[p] = "get"
    /\ IF Owned(addresses, call[p].id, call[p].user)
       THEN LET d == IF call[p].req = "nil" THEN addresses[call[p].id].def
                     ELSE call[p].req = "true"
            IN  /\ call' = [call EXCEPT ![p].def = d]
                /\ Goto(p, IF d THEN "clear" ELSE "save")
                /\ UNCHANGED <<cand, res>>
       ELSE /\ Finish(p, "NotFound")
            /\ UNCHANGED call
    /\ UNCHANGED <<Tables, writes>>

\* Update: rows the clear statement addresses (id != address.ID).
AddrUpdateClearNone(t, u, i) == {}
AddrUpdateClearScope(t, u, i) == DefaultsOf(t, u) \ {i}

AddrUpdateClear(p) ==
    /\ call[p].op = "AddrUpdate" /\ pc[p] = "clear"
    /\ Pick(p, AddrUpdateClearScope(View(p), call[p].user, call[p].id), "clear_w")

AddrUpdateClearApply(p) ==
    /\ call[p].op = "AddrUpdate" /\ pc[p] = "clear_w"
    /\ CanLock(p, cand[p])
    /\ SetFlag(p, cand[p] \cap AddrUpdateClearScope(View(p), call[p].user, call[p].id),
               FALSE)
    /\ Goto(p, "save")
    /\ UNCHANGED <<Tables, call, cand, res>>

\* tx.Save: UPDATE of every column WHERE id = ?; ...
AddrUpdateSave(p) ==
    /\ call[p].op = "AddrUpdate" /\ pc[p] = "save"
    /\ Pick(p, {i \in {call[p].id} : View(p)[i].st = "live"}, "save_w")

\* ... and, when no row was updated, gorm's Save falls back to INSERT ... ON
\* CONFLICT DO UPDATE (older gorm releases stop after the UPDATE).
AddrUpdateSaveApply(p) ==
    /\ call[p].op = "AddrUpdate" /\ pc[p] = "save_w"
    /\ CanLock(p, {call[p].id})
    /\ \/ PutRow(p, call[p].id, Live(call[p].user, call[p].def))
       \/ /\ ~(call[p].id \in cand[p] /\ View(p)[call[p].id].st = "live")
          /\ UNCHANGED writes
    /\ Goto(p, "commit")
    /\ UNCHANGED <<Tables, call, cand, res>>

\* DELETE /addresses/:id: one statement, committed by itself.
DeleteAddress(p) ==
    /\ pc[p] = "idle"
    /\ \E i \in Ids, u \in Users :
          call' = [call EXCEPT ![p] = [op |-> "AddrDelete", tbl |-> "addr",
                      id |-> i, user |-> u, req |-> "nil", def |-> FALSE, at |-> "-"]]
    /\ Goto(p, "del")
    /\ res' = [res EXCEPT ![p] = "none"]
    /\ UNCHANGED <<Tables, cand, writes>>

\* Delete's WHERE id = ? AND user_id = ?
AddrDeleteAnyOwner(t, i, u) == {j \in {i} : t[j].st = "live"}
AddrDeleteScope(t, i, u) == {j \in {i} : Owned(t, j, u)}

\* The table after a DELETE removed the rows S.
DeleteRows(t, S) == [i \in Ids |-> IF i \in S THEN Deleted ELSE t[i]]

AddrDelete(p) ==
    /\ call[p].op = "AddrDelete" /\ pc[p] = "del"
    /\ Pick(p, AddrDeleteScope(View(p), call[p].id, call[p].user), "del_w")

AddrDeleteApply(p) ==
    /\ call[p].op = "AddrDelete" /\ pc[p] = "del_w"
    /\ CanLock(p, cand[p])
    /\ LET S == cand[p] \cap AddrDeleteScope(addresses, call[p].id, call[p].user)
       IN  /\ SetTable("addr", DeleteRows(addresses, S))
           /\ Finish(p, IF S = {} THEN "NotFound" ELSE "ok")
    /\ UNCHANGED <<call, writes>>

\* PUT /addresses/:id/default -> repo.SetDefault(id, userID)
SetDefaultAddress(p) ==
    /\ pc[p] = "idle"
    /\ \E i \in Ids, u \in Users :
          call' = [call EXCEPT ![p] = [op |-> "AddrSetDefault", tbl |-> "addr",
                      id |-> i, user |-> u, req |-> "true", def |-> TRUE, at |-> "-"]]
    /\ Goto(p, "verify")
    /\ res' = [res EXCEPT ![p] = "none"]
    /\ UNCHANGED <<Tables, cand, writes>>

\* SetDefault's verification: First(WHERE id = ? AND user_id = ?) finds a row.
AddrVerifyAny(t, i, u) == t[i].st = "live"
AddrVerify(t, i, u) == Owned(t, i, u)

AddrSetDefaultVerify(p) ==
    /\ call[p].op = "AddrSetDefault" /\ pc[p] = "verify"
    /\ IF AddrVerify(View(p), call[p].id, call[p].user)
       THEN Goto(p, "clear") /\ UNCHANGED <<cand, res>>
       ELSE Finish(p, "NotFound")
    /\ UNCHANGED <<Tables, call, writes>>

AddrSetDefaultClear(p) ==
    /\ call[p].op = "AddrSetDefault" /\ pc[p] = "clear"
    /\ Pick(p, DefaultsOf(View(p), call[p].user), "clear_w")

AddrSetDefaultClearApply(p) ==
    /\ call[p].op = "AddrSetDefault" /\ pc[p] = "clear_w"
    /\ CanLock(p, cand[p])
    /\ SetFlag(p, cand[p] \cap DefaultsOf(View(p), call[p].user), FALSE)
    /\ Goto(p, "set")
    /\ UNCHANGED <<Tables, call, cand, res>>

\* UPDATE ... SET is_default = true WHERE id = ?
AddrSetDefaultSet(p) ==
    /\ call[p].op = "AddrSetDefault" /\ pc[p] = "set"
    /\ Pick(p, {i \in {call[p].id} : View(p)[i].st = "live"}, "set_w")

AddrSetDefaultSetApply(p) ==
    /\ call[p].op = "AddrSetDefault" /\ pc[p] = "set_w"
    /\ CanLock(p, cand[p])
    /\ SetFlag(p, {i \in cand[p] : View(p)[i].st = "live"}, TRUE)
    /\ Goto(p, "commit")
    /\ UNCHANGED <<Tables, call, cand, res>>

\* The transaction function returned nil: gorm commits.
AddrCommit(p) ==
    /\ call[p].tbl = "addr" /\ pc[p] = "commit"
    /\ SetTable("addr", Committed(p))
    /\ writes' = [writes EXCEPT ![p] = NoWrites]
    /\ Finish(p, "ok")
    /\ UNCHANGED call

\* A statement or the commit returns an error (storage failure, cancelled
\* context, deadlock victim): gorm rolls the transaction back and the
\* repository returns the error.
AddrFail(p) ==
    /\ call[p].tbl = "addr"
    /\ pc[p] \in {"get", "clear", "clear_w", "insert", "save", "save_w", "del",
                  "del_w", "verify", "set", "set_w", "commit"}
    /\ SetTable("addr", RolledBack(p))
    /\ writes' = [writes EXCEPT ![p] = NoWrites]
    /\ Finish(p, "error")
    /\ call' = [call EXCEPT ![p].at = pc[p]]

(***************************************************************************)
(* MeasurementHandler + MeasurementRepository: each repository call is a   *)
(* store call of its own; only SetDefault is a transaction.                *)
(***************************************************************************)

\* POST /measurements
MeasCreate(p) ==
    /\ pc[p] = "idle"
    /\ FreshIds("meas") # {}
    /\ \E u \in Users, d \in BOOLEAN :
          call' = [call EXCEPT ![p] = [op |-> "MeasCreate", tbl |-> "meas",
                      id |-> NewId("meas"), user |-> u,
                      req |-> IF d THEN "true" ELSE "false", def |-> d, at |-> "-"]]
    /\ Goto(p, "insert")
    /\ res' = [res EXCEPT ![p] = "none"]
    /\ UNCHANGED <<Tables, cand, writes>>

\* h.repo.Create: the row is inserted with the requested is_default and
\* committed; SetDefault follows only then, when is_default was requested.
MeasCreateInsert(p) ==
    /\ call[p].op = "MeasCreate" /\ pc[p] = "insert"
    /\ SetTable("meas", [measurements EXCEPT ![call[p].id] =
                            Live(call[p].user, call[p].def)])
    /\ IF call[p].def
       THEN Goto(p, "clear") /\ UNCHANGED <<cand, res>>
       ELSE Finish(p, "ok")
    /\ UNCHANGED <<call, writes>>

\* PUT /measurements/:id
MeasUpdate(p) ==
    /\ pc[p] = "idle"
    /\ \E i \in Ids, u \in Users, r \in {"nil", "true", "false"} :
          call' = [call EXCEPT ![p] = [op |-> "MeasUpdate", tbl |-> "meas",
                      id |-> i, user |-> u, req |-> r, def |-> FALSE, at |-> "-"]]
    /\ Goto(p, "get")
    /\ res' = [res EXCEPT ![p] = "none"]
    /\ UNCHANGED <<Tables, cand, writes>>

MeasUpdateGet(p) ==
    /\ call[p].op = "MeasUpdate" /\ pc[p] = "get"
    /\ IF Owned(measurements, call[p].id, call[p].user)
       THEN /\ call' = [call EXCEPT ![p].def =
                          IF call[p].req = "nil" THEN measurements[call[p].id].def
                          ELSE call[p].req = "true"]
            /\ Goto(p, "save")
            /\ UNCHANGED <<cand, res>>
       ELSE /\ Finish(p, "NotFound")
            /\ UNCHANGED call
    /\ UNCHANGED <<Tables, writes>>

\* h.repo.Update: Save outside a transaction.
MeasUpdateSave(p) ==
    /\ call[p].op = "MeasUpdate" /\ pc[p] = "save"
    /\ Pick(p, {i \in {call[p].id} : measurements[i].st = "live"}, "save_w")

MeasUpdateSaveApply(p) ==
    /\ call[p].op = "MeasUpdate" /\ pc[p] = "save_w"
    /\ CanLock(p, {call[p].id})
    /\ \/ SetTable("meas", [measurements EXCEPT ![call[p].id] =
                               Live(call[p].user, call[p].def)])
       \/ /\ ~(call[p].id \in cand[p] /\ measurements[call[p].id].st = "live")
          /\ UNCHANGED Tables
    /\ IF call[p].def
       THEN Goto(p, "clear") /\ cand' = [cand EXCEPT ![p] = {}] /\ UNCHANGED res
       ELSE Finish(p, "ok")
    /\ UNCHANGED <<call, writes>>

\* DELETE /measurements/:id
MeasDelete(p) ==
    /\ pc[p] = "idle"
    /\ \E i \in Ids, u \in Users :
          call' = [call EXCEPT ![p] = [op |-> "MeasDelete", tbl |-> "meas",
                      id |-> i, user |-> u, req |-> "nil", def |-> FALSE, at |-> "-"]]
    /\ Goto(p, "del")
    /\ res' = [res EXCEPT ![p] = "none"]
    /\ UNCHANGED <<Tables, cand, writes>>

MeasDeleteScope(t, i, u) == {j \in {i} : Owned(t, j, u)}

MeasDeleteStmt(p) ==
    /\ call[p].op = "MeasDelete" /\ pc[p] = "del"
    /\ Pick(p, MeasDeleteScope(measurements, call[p].id, call[p].user), "del_w")

MeasDeleteApply(p) ==
    /\ call[p].op = "MeasDelete" /\ pc[p] = "del_w"
    /\ CanLock(p, cand[p])
    /\ LET S == cand[p] \cap MeasDeleteScope(measurements, call[p].id, call[p].user)
       IN  /\ SetTable("meas", DeleteRows(measurements, S))
           /\ Finish(p, IF S = {} THEN "NotFound" ELSE "ok")
    /\ UNCHANGED <<call, writes>>

\* PUT /measurements/:id/default
MeasSetDefault(p) ==
    /\ pc[p] = "idle"
    /\ \E i \in Ids, u \in Users :
          call' = [call EXCEPT ![p] = [op |-> "MeasSetDefault", tbl |-> "meas",
                      id |-> i, user |-> u, req |-> "true", def |-> TRUE, at |-> "-"]]
    /\ Goto(p, "clear")
    /\ res' = [res EXCEPT ![p] = "none"]
    /\ UNCHANGED <<Tables, cand, writes>>

\* repo.SetDefault, first statement: is_default = false WHERE user_id = ?
MeasSetDefaultClear(p) ==
    /\ call[p].tbl = "meas" /\ pc[p] = "clear"
    /\ Pick(p, RowsOf(View(p), call[p].user), "clear_w")

MeasSetDefaultClearApply(p) ==
    /\ call[p].tbl = "meas" /\ pc[p] = "clear_w"
    /\ CanLock(p, cand[p])
    /\ SetFlag(p, cand[p] \cap RowsOf(View(p), call[p].user), FALSE)
    /\ Goto(p, "set")
    /\ UNCHANGED <<Tables, call, cand, res>>

\* repo.SetDefault, second statement: is_default = true WHERE id = ? AND
\* user_id = ?; a statement that matches no row is no error.
MeasSetDefaultSet(p) ==
    /\ call[p].tbl = "meas" /\ pc[p] = "set"
    /\ Pick(p, {i \in {call[p].id} : Owned(View(p), i, call[p].user)}, "set_w")

MeasSetDefaultSetApply(p) ==
    /\ call[p].tbl = "meas" /\ pc[p] = "set_w"
    /\ CanLock(p, cand[p])
    /\ SetFlag(p, {i \in cand[p] : Owned(View(p), i, call[p].user)}, TRUE)
    /\ Goto(p, "commit")
    /\ UNCHANGED <<Tables, call, cand, res>>

MeasCommit(p) ==
    /\ call[p].tbl = "meas" /\ pc[p] = "commit"
    /\ SetTable("meas", Committed(p))
    /\ writes' = [writes EXCEPT ![p] = NoWrites]
    /\ Finish(p, "ok")
    /\ UNCHANGED call

\* What the handler answers when the store call at pc l returned an error:
\* Create and Update drop the error of their SetDefault call.
MeasErrorResult(op, l) ==
    IF /\ op \in {"MeasCreate", "MeasUpdate"}
       /\ l \in {"clear", "clear_w", "set", "set_w", "commit"}
    THEN "ok" ELSE "error"

MeasFail(p) ==
    /\ call[p].tbl = "meas"
    /\ pc[p] \in {"insert", "get", "save", "save_w", "del", "del_w",
                  "clear", "clear_w", "set", "set_w", "commit"}
    /\ SetTable("meas", RolledBack(p))
    /\ writes' = [writes EXCEPT ![p] = NoWrites]
    /\ Finish(p, MeasErrorResult(call[p].op, pc[p]))
    /\ call' = [call EXCEPT ![p].at = pc[p]]

\* The handler has written its response; the worker takes the next request.
Return(p) ==
    /\ pc[p] = "done"
    /\ Goto(p, "idle")
    /\ call' = [call EXCEPT ![p] = NoCall]
    /\ res' = [res EXCEPT ![p] = "none"]
    /\ UNCHANGED <<Tables, cand, writes>>

(***************************************************************************)
(* WishlistHandler + WishlistRepository                                    *)
(*                                                                         *)
(* Every wishlist store call is a single statement outside a transaction,  *)
(* so it commits by itself; AddWithVariant is two of them (count, insert). *)
(***************************************************************************)

\* uuid.UUID is a byte array (two bytes of it are kept); uuid.Nil is all zero.
NilUUID == <<0, 0>>
ProductIDs == {<<0, 1>>, <<1, 0>>}
VariantIDs == {NilUUID, <<1, 1>>}
\* A nil *uuid.UUID in Go, NULL in the variant_id column.
NoVariant == <<>>
Variants == {NoVariant} \cup VariantIDs

\* UUID.String(): the bytes in hex, groups separated by dashes.
HexByte(b) == IF b = 0 THEN "00" ELSE "ff"
String(u) == HexByte(u[1]) \o "-" \o HexByte(u[2])

\* The variant_id query parameter: absent (""), a uuid in text, or junk.
QueryVariants == {"", "junk"} \cup {String(v) : v \in VariantIDs}
\* uuid.Parse
CanParse(s) == \E v \in VariantIDs : String(v) = s
Parse(s) == CHOOSE v \in VariantIDs : String(v) = s

\* Rows of customer.wishlist_items by (user_id, product_id, variant_id); the
\* table holds a count per key (the id column gen_random_uuid() tells rows
\* of one key apart and no statement modelled here reads it).
WishProducts == {<<0, 1>>}
WishKeys == Users \X WishProducts \X Variants
EmptyWishlist == [k \in WishKeys |-> 0]
NoWish == [pc |-> "idle", op |-> "none", user |-> NoUser, product |-> <<>>,
           variant |-> NoVariant, query |-> "", dup |-> FALSE, res |-> "none"]

\* WHERE user_id = ? AND product_id = ?
WishOfProduct(t, u, pr) == {k \in WishKeys : t[k] > 0 /\ k[1] = u /\ k[2] = pr}
\* ... AND variant_id = ?   or   ... AND variant_id IS NULL
WishOfVariant(t, u, pr, v) ==
    {k \in WishOfProduct(t, u, pr) :
        IF v # NoVariant THEN k[3] # NoVariant /\ k[3] = v ELSE k[3] = NoVariant}

\* idx_wishlist_user_product_variant:
\* (user_id, product_id, COALESCE(variant_id, '00000000-...'))
IndexKey(k) == <<k[1], k[2], IF k[3] = NoVariant THEN NilUUID ELSE k[3]>>
\* The unique index rejects an INSERT whose index key a row already has.
UniqueViolationNever(t, k) == FALSE
UniqueViolation(t, k) == \E j \in WishKeys : t[j] > 0 /\ IndexKey(j) = IndexKey(k)

\* POST /wishlist: AddToWishlist binds the body and calls AddWithVariant,
\* whose first statement counts the rows of the key.
AddToWishlist(p) ==
    /\ wreq[p].pc = "idle"
    /\ \E u \in Users, pr \in WishProducts, v \in Variants :
          LET found == WishOfVariant(wishlist_items, u, pr, v) # {}
          IN  wreq' = [wreq EXCEPT ![p] =
                  [pc |-> IF found THEN "done" ELSE "insert", op |-> "Add",
                   user |-> u, product |-> pr, variant |-> v, query |-> "",
                   dup |-> FALSE, res |-> IF found THEN "ok" ELSE "none"]]
    /\ UNCHANGED wishlist_items

\* AddWithVariant's second statement: db.Create(item).  dup records whether
\* a row of the very key was there when the INSERT ran.
WishAddInsert(p) ==
    /\ wreq[p].pc = "insert"
    /\ LET k == <<wreq[p].user, wreq[p].product, wreq[p].variant>>
       IN  IF UniqueViolation(wishlist_items, k)
           THEN /\ wreq' = [wreq EXCEPT ![p].pc = "done", ![p].res = "error",
                                        ![p].dup = wishlist_items[k] > 0]
                /\ UNCHANGED wishlist_items
           ELSE /\ wishlist_items' = [wishlist_items EXCEPT ![k] = @ + 1]
                /\ wreq' = [wreq EXCEPT ![p].pc = "done", ![p].res = "ok",
                                        ![p].dup = wishlist_items[k] > 0]

\* WishlistRepository.Remove / RemoveWithVariant: the rows the DELETE removes.
WishRemove(t, u, pr) == WishOfProduct(t, u, pr)
WishRemoveWithVariant(t, u, pr, v) == WishOfVariant(t, u, pr, v)

\* DELETE /wishlist/:productId[?variant_id=]: RemoveFromWishlist.
RemoveFromWishlist(p) ==
    /\ wreq[p].pc = "idle"
    /\ \E u \in Users, pr \in WishProducts, q \in QueryVariants :
          LET bad == q # "" /\ ~CanParse(q)
              v == IF q = "" \/ bad THEN NoVariant ELSE Parse(q)
              gone == IF bad THEN {}
                      ELSE IF v # NoVariant
                           THEN WishRemoveWithVariant(wishlist_items, u, pr, v)
                           ELSE WishRemove(wishlist_items, u, pr)
          IN  /\ wishlist_items' =
                   [k \in WishKeys |-> IF k \in gone THEN 0 ELSE wishlist_items[k]]
              /\ wreq' = [wreq EXCEPT ![p] =
                   [pc |-> "done", op |-> "Remove", user |-> u, product |-> pr,
                    variant |-> v, query |-> q, dup |-> FALSE,
                    res |-> IF bad THEN "BadRequest"
                            ELSE IF gone = {} THEN "NotFound" ELSE "ok"]]

\* WishlistRepository.Exists / ExistsWithVariant: count > 0.
Exists(t, u, pr) == WishOfProduct(t, u, pr) # {}
ExistsWithVariant(t, u, pr, v) == WishOfVariant(t, u, pr, v) # {}

\* GET /wishlist/check/:productId[?variant_id=]: CheckWishlist.
CheckWishlist(p) ==
    /\ wreq[p].pc = "idle"
    /\ \E u \in Users, pr \in WishProducts, q \in QueryVariants :
          LET bad == q # "" /\ ~CanParse(q)
              v == IF q = "" \/ bad THEN NoVariant ELSE Parse(q)
              here == IF v # NoVariant
                    THEN ExistsWithVariant(wishlist_items, u, pr, v)
                    ELSE Exists(wishlist_items, u, pr)
          IN  wreq' = [wreq EXCEPT ![p] =
                  [pc |-> "done", op |-> "Check", user |-> u, product |-> pr,
                   variant |-> v, query |-> q, dup |-> FALSE,
                   res |-> IF bad THEN "BadRequest"
                           ELSE IF here THEN "true" ELSE "false"]]
    /\ UNCHANGED wishlist_items

\* The handler has written its response.
WishReturn(p) ==
    /\ wreq[p].pc = "done"
    /\ wreq' = [wreq EXCEPT ![p] = NoWish]
    /\ UNCHANGED wishlist_items

(***************************************************************************)
(* Wishlist deduplication keys                                             *)
(***************************************************************************)

\* domain/wishlist WishlistItem.UniqueKey
UniqueKey(pr, v) ==
    IF v # NoVariant THEN String(pr) \o "-" \o String(v)
    ELSE String(pr) \o "-nil"

\* models.WishlistItem.GetUniqueKey
GetUniqueKey(pr, v) ==
    IF v # NoVariant THEN String(pr) \o "-" \o String(v)
    ELSE String(pr) \o "-nil"

\* domain/wishlist WishlistItem.MatchesProduct, the item being (ipr, iv)
MatchesProduct(ipr, iv, pr, v) ==
    IF ipr # pr THEN FALSE
    ELSE IF iv = NoVariant /\ v = NoVariant THEN TRUE
    ELSE IF iv = NoVariant \/ v = NoVariant THEN FALSE
    ELSE iv = v

\* Two (product, variant-or-absent) pairs of one owner and what the key
\* functions and the index make of them.
KeyPairs == ProductIDs \X Variants
KeyOwner == "u1"
NotComputed == <<>>
NoKeyed == [a |-> <<NilUUID, NoVariant>>, b |-> <<NilUUID, NoVariant>>,
            domainKeys |-> NotComputed, modelKeys |-> NotComputed,
            matches |-> NotComputed, indexKeys |-> NotComputed]

KeyUniqueKey ==
    /\ keyed.domainKeys = NotComputed
    /\ keyed' = [keyed EXCEPT !.domainKeys =
                    <<UniqueKey(keyed.a[1], keyed.a[2]), UniqueKey(keyed.b[1], keyed.b[2])>>]

KeyGetUniqueKey ==
    /\ keyed.modelKeys = NotComputed
    /\ keyed' = [keyed EXCEPT !.modelKeys =
                    <<GetUniqueKey(keyed.a[1], keyed.a[2]), GetUniqueKey(keyed.b[1], keyed.b[2])>>]

KeyMatchesProduct ==
    /\ keyed.matches = NotComputed
    /\ keyed' = [keyed EXCEPT !.matches =
                    <<MatchesProduct(keyed.a[1], keyed.a[2], keyed.b[1], keyed.b[2])>>]

KeyIndexKey ==
    /\ keyed.indexKeys = NotComputed
    /\ keyed' = [keyed EXCEPT !.indexKeys =
                    <<IndexKey(<<KeyOwner, keyed.a[1], keyed.a[2]>>),
                      IndexKey(<<KeyOwner, keyed.b[1], keyed.b[2]>>)>>]

(***************************************************************************)
(* BackInStockHandler, AdminBackInStockHandler, BackInStockSubscriber and  *)
(* BackInStockRepository                                                   *)
(*                                                                         *)
(* Every store call is a single statement that commits by itself.  The     *)
(* model has gorm.DeletedAt: Delete sets deleted_at and every other        *)
(* statement adds deleted_at IS NULL, so a deleted row is never read or    *)
(* written again (its columns are dropped here).                           *)
(***************************************************************************)

\* Subscription rows ever inserted (ids are never reused).
MaxSubs == 2
\* Values NOW() takes.
MaxClock == 3

SubIds == 1 .. MaxSubs
BisProducts == {<<0, 1>>}
BisVariants == {NoVariant, <<1, 1>>}
\* notification_sent_at IS NULL
NoTime == 0

NoSub == [st |-> "unused", customer |-> NoUser, product |-> <<>>,
          variant |-> NoVariant, notified |-> FALSE, sentAt |-> NoTime]
GoneSub == [st |-> "deleted", customer |-> NoUser, product |-> <<>>,
            variant |-> NoVariant, notified |-> FALSE, sentAt |-> NoTime]
\* Subscribe's struct: IsNotified false, NotificationSentAt nil.
PendingSub(c, pr, v) ==
    [st |-> "live", customer |-> c, product |-> pr, variant |-> v,
     notified |-> FALSE, sentAt |-> NoTime]
NoSubs == [i \in SubIds |-> NoSub]
NoBis == [pc |-> "idle", op |-> "none", customer |-> NoUser, product |-> <<>>,
          variant |-> NoVariant, ids |-> {}, id |-> 0, lookupErr |-> FALSE, sub |-> NoSub,
          res |-> "none"]

\* WHERE customer_id = ? AND product_id = ? AND (variant_id = ? | variant_id IS NULL)
SubsOfKeyNone(t, c, pr, v) == {}
SubsOfKey(t, c, pr, v) ==
    {i \in SubIds : /\ t[i].st = "live" /\ t[i].customer = c /\ t[i].product = pr
                    /\ IF v # NoVariant THEN t[i].variant # NoVariant /\ t[i].variant = v
                       ELSE t[i].variant = NoVariant}

\* gen_random_uuid(): an id no row has had.
FreshSubs == {i \in SubIds : subscriptions[i].st = "unused"}
NewSub == CHOOSE i \in FreshSubs : \A j \in FreshSubs : i <= j
\* Rows still to be inserted by Subscribe calls past their lookup.
Creating == {q \in Procs : breq[q].pc = "create"}
Room == Cardinality(FreshSubs) > Cardinality(Creating)

\* POST /back-in-stock: Subscribe, up to its lookup.  query.First either
\* finds a row (err == nil) or not; every error, ErrRecordNotFound or a
\* storage error, falls through to the insert.
BisSubscribe(p) ==
    /\ breq[p].pc = "idle"
    /\ \E c \in Users, pr \in BisProducts, v \in BisVariants, fails \in BOOLEAN :
          LET found == SubsOfKey(subscriptions, c, pr, v)
          IN  IF ~fails /\ found # {}
              THEN \E i \in found :
                      breq' = [breq EXCEPT ![p] =
                          [pc |-> "done", op |-> "Subscribe", customer |-> c,
                           product |-> pr, variant |-> v, ids |-> {}, id |-> i,
                           lookupErr |-> FALSE, sub |-> subscriptions[i], res |-> "ok"]]
              ELSE /\ Room
                   /\ breq' = [breq EXCEPT ![p] =
                          [pc |-> "create", op |-> "Subscribe", customer |-> c,
                           product |-> pr, variant |-> v, ids |-> {}, id |-> 0,
                           lookupErr |-> fails, sub |-> NoSub, res |-> "none"]]
    /\ UNCHANGED <<subscriptions, clock>>

\* Subscribe's db.Create(&subscription): the row, or the error.
BisSubscribeCreate(p) ==
    /\ breq[p].pc = "create"
    /\ \/ /\ subscriptions' = [subscriptions EXCEPT ![NewSub] =
                 PendingSub(breq[p].customer, breq[p].product, breq[p].variant)]
          /\ breq' = [breq EXCEPT ![p].pc = "done", ![p].id = NewSub, ![p].res = "ok",
                                   ![p].sub = subscriptions'[NewSub]]
       \/ /\ breq' = [breq EXCEPT ![p].pc = "done", ![p].res = "error"]
          /\ UNCHANGED subscriptions
    /\ UNCHANGED clock

\* Delete(&BackInStockSubscription{}) on the rows S.
SoftDelete(t, S) == [i \in SubIds |-> IF i \in S THEN GoneSub ELSE t[i]]

\* DELETE /back-in-stock/:productId[?variant_id=]: Unsubscribe.
BisUnsubscribe(p) ==
    /\ breq[p].pc = "idle"
    /\ \E c \in Users, pr \in BisProducts, v \in BisVariants :
          /\ subscriptions' = SoftDelete(subscriptions, SubsOfKey(subscriptions, c, pr, v))
          /\ breq' = [breq EXCEPT ![p] =
                 [pc |-> "done", op |-> "Unsubscribe", customer |-> c, product |-> pr,
                  variant |-> v, ids |-> {}, id |-> 0, lookupErr |-> FALSE, sub |-> NoSub, res |-> "ok"]]
    /\ UNCHANGED clock

\* WHERE id = ? AND customer_id = ?
SubsOfIDAnyCustomer(t, i, c) == {j \in {i} : t[j].st = "live"}
SubsOfID(t, i, c) == {j \in {i} : t[j].st = "live" /\ t[j].customer = c}

\* DELETE /back-in-stock/subscriptions/:id: UnsubscribeByID.
BisUnsubscribeByID(p) ==
    /\ breq[p].pc = "idle"
    /\ \E c \in Users, i \in SubIds :
          /\ subscriptions' = SoftDelete(subscriptions, SubsOfID(subscriptions, i, c))
          /\ breq' = [breq EXCEPT ![p] =
                 [pc |-> "done", op |-> "UnsubscribeByID", customer |-> c, product |-> <<>>,
                  variant |-> NoVariant, ids |-> {}, id |-> i, lookupErr |-> FALSE, sub |-> NoSub,
                  res |-> "ok"]]
    /\ UNCHANGED clock

\* Updates({"is_notified": true, "notification_sent_at": NOW()}) on one row.
MarkedRowFlip(row, now) == [row EXCEPT !.notified = ~row.notified, !.sentAt = now]
MarkedRow(row, now) == [row EXCEPT !.notified = TRUE, !.sentAt = now]

\* MarkMultipleAsNotified: ... WHERE id IN ?
MarkMultipleAsNotifiedAll(t, ids, now) ==
    [i \in SubIds |-> IF t[i].st = "live" THEN MarkedRow(t[i], now) ELSE t[i]]
MarkMultipleAsNotified(t, ids, now) ==
    [i \in SubIds |-> IF i \in ids /\ t[i].st = "live" THEN MarkedRow(t[i], now) ELSE t[i]]

\* POST /admin/back-in-stock/mark-notified: MarkAsNotified.
AdminMarkAsNotified(p) ==
    /\ breq[p].pc = "idle"
    /\ \E ids \in SUBSET SubIds :
          /\ subscriptions' = MarkMultipleAsNotified(subscriptions, ids, clock)
          /\ breq' = [breq EXCEPT ![p] =
                 [pc |-> "done", op |-> "MarkAsNotified", customer |-> NoUser,
                  product |-> <<>>, variant |-> NoVariant, ids |-> ids, id |-> 0,
                  lookupErr |-> FALSE, sub |-> NoSub, res |-> "ok"]]
    /\ UNCHANGED clock

\* GetByProduct: pending rows of the product, of the variant when one is given.
GetByProductAnyVariant(t, pr, v) ==
    {i \in SubIds : t[i].st = "live" /\ t[i].product = pr /\ ~t[i].notified}
GetByProductNotified(t, pr, v) ==
    {i \in SubIds : /\ t[i].st = "live" /\ t[i].product = pr
                    /\ (v # NoVariant => t[i].variant # NoVariant /\ t[i].variant = v)}
GetByProduct(t, pr, v) ==
    {i \in SubIds : /\ t[i].st = "live" /\ t[i].product = pr /\ ~t[i].notified
                    /\ (v # NoVariant => t[i].variant # NoVariant /\ t[i].variant = v)}

\* inventory.product.restocked: handleRestockedEvent up to the end of its
\* send loop; notifiedIDs are the subscriptions whose send succeeded.
HandleRestockedEvent(p) ==
    /\ breq[p].pc = "idle"
    /\ \E pr \in BisProducts, v \in BisVariants :
       \E notifiedIDs \in SUBSET GetByProduct(subscriptions, pr, v) :
          breq' = [breq EXCEPT ![p] =
              [pc |-> IF notifiedIDs = {} THEN "done" ELSE "mark", op |-> "Restocked",
               customer |-> NoUser, product |-> pr, variant |-> v, ids |-> notifiedIDs,
               id |-> 0, lookupErr |-> FALSE, sub |-> NoSub, res |-> "none"]]
    /\ UNCHANGED <<subscriptions, clock>>

\* handleRestockedEvent's batch MarkMultipleAsNotified; its error is logged.
RestockedMark(p) ==
    /\ breq[p].pc = "mark"
    /\ \/ subscriptions' = MarkMultipleAsNotified(subscriptions, breq[p].ids, clock)
       \/ UNCHANGED subscriptions
    /\ breq' = [breq EXCEPT ![p].pc = "done"]
    /\ UNCHANGED clock

\* older_than_days of the cleanup request (at least 1).
CleanupDays == {1, 2}

\* DeleteOldNotified: is_notified = true AND notification_sent_at < NOW() - days.
OldNotified(t, now, days) ==
    {i \in SubIds : t[i].st = "live" /\ t[i].notified /\ t[i].sentAt < now - days}

\* DELETE /admin/back-in-stock/cleanup: Cleanup.  The statement carries its
\* placeholder inside the quoted interval literal; it either runs as meant
\* or is rejected by the store.
Cleanup(p) ==
    /\ breq[p].pc = "idle"
    /\ \E days \in CleanupDays, runs \in BOOLEAN :
          /\ subscriptions' =
                IF runs THEN SoftDelete(subscriptions, OldNotified(subscriptions, clock, days))
                ELSE subscriptions
          /\ breq' = [breq EXCEPT ![p] =
                 [pc |-> "done", op |-> "Cleanup", customer |-> NoUser, product |-> <<>>,
                  variant |-> NoVariant, ids |-> {}, id |-> days, lookupErr |-> FALSE, sub |-> NoSub,
                  res |-> IF runs THEN "ok" ELSE "error"]]
    /\ UNCHANGED clock

\* Time passes between store calls.
Tick ==
    /\ clock < MaxClock
    /\ clock' = clock + 1
    /\ UNCHANGED <<subscriptions, breq>>

\* The handler has written its response / the event callback has returned.
BisReturn(p) ==
    /\ breq[p].pc = "done"
    /\ breq' = [breq EXCEPT ![p] = NoBis]
    /\ UNCHANGED <<subscriptions, clock>>

(***************************************************************************)
(* BackInStockSubscriber                                                   *)
(*                                                                         *)
(* The connection hands the subscription's messages to the callback one    *)
(* at a time, so one event is handled at a time; here it is followed       *)
(* step by step, with no request served in between.                        *)
(***************************************************************************)

\* The identifiers uuid.Parse can yield here.
UUIDs == ProductIDs \cup VariantIDs
\* uuid.Parse: the identifier, or an error and the zero identifier.
ParseUUID(s) ==
    IF \E u \in UUIDs : String(u) = s
    THEN [err |-> FALSE, id |-> CHOOSE u \in UUIDs : String(u) = s]
    ELSE [err |-> TRUE, id |-> NilUUID]

\* product_id and variant_id of a message, and the messages themselves; a
\* message json.Unmarshal rejects leaves the event's fields zero.
EventProducts == {"junk"} \cup {String(pr) : pr \in ProductIDs}
EventVariants == {"", "junk"} \cup {String(v) : v \in BisVariants \ {NoVariant}}
BadJSON == [json |-> FALSE, product_id |-> "", variant_id |-> ""]
Payloads == {BadJSON} \cup [json : {TRUE}, product_id : EventProducts,
                            variant_id : EventVariants]

\* handleRestockedEvent's first returns: Unmarshal, the product id, the
\* variant id when the event has one.
DecodeLoose(e) ==
    LET pr == ParseUUID(e.product_id)
        v == ParseUUID(e.variant_id)
    IN  [err |-> ~e.json \/ pr.err,
         product |-> pr.id,
         variant |-> IF e.variant_id # "" /\ ~v.err THEN v.id ELSE NoVariant]
Decode(e) ==
    LET pr == ParseUUID(e.product_id)
        v == ParseUUID(e.variant_id)
    IN  [err |-> ~e.json \/ pr.err \/ (e.variant_id # "" /\ v.err),
         product |-> pr.id,
         variant |-> IF e.variant_id # "" THEN v.id ELSE NoVariant]

\* notificationClient of the subscriber: nil, or a client.
Clients == {"nil", "set"}
NoTries == [i \in SubIds |-> 0]
\* The subscriber between events: its client, and how the last event ended.
NoEvent(cl, last) ==
    [client |-> cl, last |-> last, pc |-> "idle", event |-> BadJSON,
     product |-> <<>>, variant |-> NoVariant, queries |-> 0, subs |-> {},
     todo |-> {}, tries |-> NoTries, sent |-> {}, notifiedIDs |-> {},
     marks |-> 0, marked |-> {}, outcome |-> "none"]
\* Sends that returned nil, ever, and those that did so for a subscription
\* already sent to.
NoOutbox == [delivered |-> {}, redelivered |-> {}]

NoRequest == \A p \in Procs : breq[p].pc = "idle"

\* A message arrives: Unmarshal and the two uuid.Parse, with their returns.
EventReceive ==
    /\ notifier.pc = "idle"
    /\ NoRequest
    /\ \E e \in Payloads :
          LET d == Decode(e)
          IN  notifier' = [NoEvent(notifier.client, notifier.last) EXCEPT
                  !.pc = IF d.err THEN "done" ELSE "received",
                  !.event = e,
                  !.product = IF d.err THEN <<>> ELSE d.product,
                  !.variant = IF d.err THEN NoVariant ELSE d.variant,
                  !.outcome = IF d.err THEN "dropped" ELSE "none"]
    /\ nseen' = subscriptions
    /\ UNCHANGED <<outbox, BisState>>

\* backInStockRepo.GetByProduct and the two returns after it.
EventResolve ==
    /\ notifier.pc = "received"
    /\ \E fails \in BOOLEAN :
          LET found == IF fails THEN {}
                       ELSE GetByProduct(subscriptions, notifier.product, notifier.variant)
          IN  notifier' = [notifier EXCEPT
                  !.queries = @ + 1,
                  !.subs = found,
                  !.todo = found,
                  !.pc = IF found = {} THEN "done" ELSE "resolved",
                  !.outcome = IF fails THEN "queryError"
                              ELSE IF found = {} THEN "empty" ELSE "none"]
    /\ UNCHANGED <<outbox, nseen, BisState>>

\* One turn of the loop over the subscriptions found.  With a client the
\* notification is sent, and an error skips the append; without one the id
\* is appended.
SendAlways(cl, ok) == TRUE
SendOK(cl, ok) == cl = "nil" \/ ok
\* The loop goes on while subscriptions are left.
AfterSendLeave(rest) == "attempted"
AfterSend(rest) == IF rest = {} THEN "attempted" ELSE "resolved"
\* MarkMultipleAsNotified returned an error: its one UPDATE changed no row.
MarkFailedPartly(t, ids, now) ==
    MarkMultipleAsNotified(t, {i \in ids : \A j \in ids : i <= j}, now)
MarkFailed(t, ids, now) == t
EventSend ==
    /\ notifier.pc = "resolved"
    /\ \E i \in notifier.todo, ok \in BOOLEAN :
          LET called == notifier.client # "nil"
              rest == notifier.todo \ {i}
          IN  /\ notifier' = [notifier EXCEPT
                     !.todo = rest,
                     !.tries = IF called THEN [@ EXCEPT ![i] = @ + 1] ELSE @,
                     !.sent = IF called /\ ok THEN @ \cup {i} ELSE @,
                     !.notifiedIDs = IF SendOK(notifier.client, ok) THEN @ \cup {i} ELSE @,
                     !.pc = AfterSend(rest)]
              /\ outbox' = IF called /\ ok
                           THEN [delivered |-> outbox.delivered \cup {i},
                                 redelivered |-> outbox.redelivered \cup
                                                 ({i} \cap outbox.delivered)]
                           ELSE outbox
    /\ UNCHANGED <<nseen, BisState>>

\* After the loop: MarkMultipleAsNotified when any id was appended; its
\* error is logged and nothing else is done.
EventMark ==
    /\ notifier.pc = "attempted"
    /\ IF notifier.notifiedIDs = {}
       THEN /\ notifier' = [notifier EXCEPT !.pc = "done", !.outcome = "unsent"]
            /\ UNCHANGED subscriptions
       ELSE \/ /\ subscriptions' =
                     MarkMultipleAsNotified(subscriptions, notifier.notifiedIDs, clock)
               /\ notifier' = [notifier EXCEPT !.pc = "done", !.marks = @ + 1,
                                  !.marked = notifier.notifiedIDs, !.outcome = "marked"]
            \/ /\ subscriptions' = MarkFailed(subscriptions, notifier.notifiedIDs, clock)
               /\ notifier' = [notifier EXCEPT !.pc = "done", !.marks = @ + 1,
                                  !.marked = notifier.notifiedIDs,
                                  !.outcome = "markFailed"]
    /\ UNCHANGED <<outbox, nseen, clock, breq, bseen>>

\* The callback returns; the subscription delivers the next message.
EventReturn ==
    /\ notifier.pc = "done"
    /\ notifier' = NoEvent(notifier.client, notifier.outcome)
    /\ UNCHANGED <<outbox, nseen, BisState>>


Init ==
    /\ addresses = EmptyTable
    /\ measurements = EmptyTable
    /\ pc = [p \in Procs |-> "idle"]
    /\ call = [p \in Procs |-> NoCall]
    /\ cand = [p \in Procs |-> {}]
    /\ writes = [p \in Procs |-> NoWrites]
    /\ res = [p \in Procs |-> "none"]
    /\ before = <<EmptyTable, EmptyTable>>
    /\ wishlist_items = EmptyWishlist
    /\ wreq = [p \in Procs |-> NoWish]
    /\ wseen = EmptyWishlist
    /\ subscriptions = NoSubs
    /\ clock = 1
    /\ breq = [p \in Procs |-> NoBis]
    /\ bseen = NoSubs
    /\ notifier = NoEvent("set", "none")
    /\ outbox = NoOutbox
    /\ nseen = NoSubs
    /\ keyed = NoKeyed

\* Requests served concurrently.
Conc(A) == A /\ UNCHANGED <<before, WishState, BisState, keyed, NotifyState>>

NextAddr ==
    \E p \in Procs :
        \/ Conc(CreateAddress(p))
        \/ Conc(AddrCreateClear(p))
        \/ Conc(AddrCreateClearApply(p))
        \/ Conc(AddrCreateInsert(p))
        \/ Conc(UpdateAddress(p))
        \/ Conc(AddrUpdateGet(p))
        \/ Conc(AddrUpdateClear(p))
        \/ Conc(AddrUpdateClearApply(p))
        \/ Conc(AddrUpdateSave(p))
        \/ Conc(AddrUpdateSaveApply(p))
        \/ Conc(DeleteAddress(p))
        \/ Conc(AddrDelete(p))
        \/ Conc(AddrDeleteApply(p))
        \/ Conc(SetDefaultAddress(p))
        \/ Conc(AddrSetDefaultVerify(p))
        \/ Conc(AddrSetDefaultClear(p))
        \/ Conc(AddrSetDefaultClearApply(p))
        \/ Conc(AddrSetDefaultSet(p))
        \/ Conc(AddrSetDefaultSetApply(p))
        \/ Conc(AddrCommit(p))
        \/ Conc(AddrFail(p))
        \/ Conc(Return(p))

SpecAddr == Init /\ [][NextAddr]_vars

\* Requests served one at a time; before keeps both tables as the request found them.
SeqProcs == {"p1"}
Serial(p, A) ==
    /\ A
    /\ before' = IF pc[p] = "idle" THEN <<addresses, measurements>> ELSE before
    /\ UNCHANGED <<WishState, BisState, keyed, NotifyState>>

NextSeq ==
    \E p \in SeqProcs :
        \/ Serial(p, CreateAddress(p))
        \/ Serial(p, AddrCreateClear(p))
        \/ Serial(p, AddrCreateClearApply(p))
        \/ Serial(p, AddrCreateInsert(p))
        \/ Serial(p, UpdateAddress(p))
        \/ Serial(p, AddrUpdateGet(p))
        \/ Serial(p, AddrUpdateClear(p))
        \/ Serial(p, AddrUpdateClearApply(p))
        \/ Serial(p, AddrUpdateSave(p))
        \/ Serial(p, AddrUpdateSaveApply(p))
        \/ Serial(p, DeleteAddress(p))
        \/ Serial(p, AddrDelete(p))
        \/ Serial(p, AddrDeleteApply(p))
        \/ Serial(p, SetDefaultAddress(p))
        \/ Serial(p, AddrSetDefaultVerify(p))
        \/ Serial(p, AddrSetDefaultClear(p))
        \/ Serial(p, AddrSetDefaultClearApply(p))
        \/ Serial(p, AddrSetDefaultSet(p))
        \/ Serial(p, AddrSetDefaultSetApply(p))
        \/ Serial(p, AddrCommit(p))
        \/ Serial(p, AddrFail(p))
        \/ Serial(p, MeasCreate(p))
        \/ Serial(p, MeasCreateInsert(p))
        \/ Serial(p, MeasUpdate(p))
        \/ Serial(p, MeasUpdateGet(p))
        \/ Serial(p, MeasUpdateSave(p))
        \/ Serial(p, MeasUpdateSaveApply(p))
        \/ Serial(p, MeasDelete(p))
        \/ Serial(p, MeasDeleteStmt(p))
        \/ Serial(p, MeasDeleteApply(p))
        \/ Serial(p, MeasSetDefault(p))
        \/ Serial(p, MeasSetDefaultClear(p))
        \/ Serial(p, MeasSetDefaultClearApply(p))
        \/ Serial(p, MeasSetDefaultSet(p))
        \/ Serial(p, MeasSetDefaultSetApply(p))
        \/ Serial(p, MeasCommit(p))
        \/ Serial(p, MeasFail(p))
        \/ Serial(p, Return(p))

SpecSeq == Init /\ [][NextSeq]_vars

\* Wishlist requests served concurrently.
WishConc(A) == A /\ UNCHANGED <<wseen, DefaultState, BisState, keyed, NotifyState>>

NextWish ==
    \E p \in Procs :
        \/ WishConc(AddToWishlist(p))
        \/ WishConc(WishAddInsert(p))
        \/ WishConc(RemoveFromWishlist(p))
        \/ WishConc(CheckWishlist(p))
        \/ WishConc(WishReturn(p))

SpecWish == Init /\ [][NextWish]_vars

\* Wishlist requests served one at a time; wseen keeps the table as the
\* request found it.
WishSeq(p, A) ==
    /\ A
    /\ wseen' = IF wreq[p].pc = "idle" THEN wishlist_items ELSE wseen
    /\ UNCHANGED <<DefaultState, BisState, keyed, NotifyState>>

NextWishSeq ==
    \E p \in SeqProcs :
        \/ WishSeq(p, AddToWishlist(p))
        \/ WishSeq(p, WishAddInsert(p))
        \/ WishSeq(p, RemoveFromWishlist(p))
        \/ WishSeq(p, CheckWishlist(p))
        \/ WishSeq(p, WishReturn(p))

SpecWishSeq == Init /\ [][NextWishSeq]_vars

\* The key functions applied to every two pairs.
InitKey ==
    /\ addresses = EmptyTable
    /\ measurements = EmptyTable
    /\ pc = [p \in Procs |-> "idle"]
    /\ call = [p \in Procs |-> NoCall]
    /\ cand = [p \in Procs |-> {}]
    /\ writes = [p \in Procs |-> NoWrites]
    /\ res = [p \in Procs |-> "none"]
    /\ before = <<EmptyTable, EmptyTable>>
    /\ wishlist_items = EmptyWishlist
    /\ wreq = [p \in Procs |-> NoWish]
    /\ wseen = EmptyWishlist
    /\ subscriptions = NoSubs
    /\ clock = 1
    /\ breq = [p \in Procs |-> NoBis]
    /\ bseen = NoSubs
    /\ notifier = NoEvent("set", "none")
    /\ outbox = NoOutbox
    /\ nseen = NoSubs
    /\ \E x \in KeyPairs, y \in KeyPairs : keyed = [NoKeyed EXCEPT !.a = x, !.b = y]

NextKey ==
    \/ KeyUniqueKey /\ UNCHANGED <<DefaultState, WishState, BisState, NotifyState>>
    \/ KeyGetUniqueKey /\ UNCHANGED <<DefaultState, WishState, BisState, NotifyState>>
    \/ KeyMatchesProduct /\ UNCHANGED <<DefaultState, WishState, BisState, NotifyState>>
    \/ KeyIndexKey /\ UNCHANGED <<DefaultState, WishState, BisState, NotifyState>>

SpecKey == InitKey /\ [][NextKey]_vars

\* Back-in-stock requests and restock events served concurrently.
BisConc(A) == A /\ UNCHANGED <<bseen, DefaultState, WishState, keyed, NotifyState>>

NextBis ==
    \/ \E p \in Procs :
        \/ BisConc(BisSubscribe(p))
        \/ BisConc(BisSubscribeCreate(p))
        \/ BisConc(BisUnsubscribe(p))
        \/ BisConc(BisUnsubscribeByID(p))
        \/ BisConc(AdminMarkAsNotified(p))
        \/ BisConc(HandleRestockedEvent(p))
        \/ BisConc(RestockedMark(p))
        \/ BisConc(Cleanup(p))
        \/ BisConc(BisReturn(p))
    \/ BisConc(Tick)

SpecBis == Init /\ [][NextBis]_vars

\* Served one at a time; bseen keeps the rows as the request found them.
BisSeq(p, A) ==
    /\ A
    /\ bseen' = IF breq[p].pc = "idle" THEN subscriptions ELSE bseen
    /\ UNCHANGED <<DefaultState, WishState, keyed, NotifyState>>

NextBisSeq ==
    \/ \E p \in SeqProcs :
        \/ BisSeq(p, BisSubscribe(p))
        \/ BisSeq(p, BisSubscribeCreate(p))
        \/ BisSeq(p, BisUnsubscribe(p))
        \/ BisSeq(p, BisUnsubscribeByID(p))
        \/ BisSeq(p, AdminMarkAsNotified(p))
        \/ BisSeq(p, HandleRestockedEvent(p))
        \/ BisSeq(p, RestockedMark(p))
        \/ BisSeq(p, Cleanup(p))
        \/ BisSeq(p, BisReturn(p))
    \/ Tick /\ UNCHANGED <<bseen, DefaultState, WishState, keyed, NotifyState>>

SpecBisSeq == Init /\ [][NextBisSeq]_vars

\* The subscriber as NewBackInStockSubscriber can build it.
InitNotify ==
    /\ addresses = EmptyTable
    /\ measurements = EmptyTable
    /\ pc = [p \in Procs |-> "idle"]
    /\ call = [p \in Procs |-> NoCall]
    /\ cand = [p \in Procs |-> {}]
    /\ writes = [p \in Procs |-> NoWrites]
    /\ res = [p \in Procs |-> "none"]
    /\ before = <<EmptyTable, EmptyTable>>
    /\ wishlist_items = EmptyWishlist
    /\ wreq = [p \in Procs |-> NoWish]
    /\ wseen = EmptyWishlist
    /\ subscriptions = NoSubs
    /\ clock = 1
    /\ breq = [p \in Procs |-> NoBis]
    /\ bseen = NoSubs
    /\ keyed = NoKeyed
    /\ \E cl \in Clients : notifier = NoEvent(cl, "none")
    /\ outbox = NoOutbox
    /\ nseen = NoSubs

\* A request is served while no event is being handled.
NotifyReq(p, A) ==
    /\ notifier.pc = "idle"
    /\ A
    /\ UNCHANGED <<bseen, DefaultState, WishState, keyed, NotifyState>>
\* A step of the event callback.
NotifyEv(A) == A /\ UNCHANGED <<DefaultState, WishState, keyed>>

NextNotify ==
    \/ \E p \in SeqProcs :
        \/ NotifyReq(p, BisSubscribe(p))
        \/ NotifyReq(p, BisSubscribeCreate(p))
        \/ NotifyReq(p, BisUnsubscribe(p))
        \/ NotifyReq(p, BisReturn(p))
    \/ NotifyEv(EventReceive)
    \/ NotifyEv(EventResolve)
    \/ NotifyEv(EventSend)
    \/ NotifyEv(EventMark)
    \/ NotifyEv(EventReturn)

SpecNotify == InitNotify /\ [][NextNotify]_vars

(***************************************************************************)
(* Properties                                                              *)
(***************************************************************************)

AtMostOneDefault(t) == \A u \in Users : Cardinality(DefaultsOf(t, u)) <= 1
Quiet == \A p \in Procs : pc[p] \in {"idle", "done"}
Done(p, ops) == pc[p] = "done" /\ call[p].op \in ops
AddrBefore == before[1]
MeasBefore == before[2]

\* C1: after any sequence of address Create, Update, SetDefault and Delete
\* requests, each run to completion, every owner has at most one address
\* with is_default = true.
C1_AddrAtMostOneDefault == Quiet => AtMostOneDefault(addresses)

\* A Create with is_default = true has completed for an owner who had a default.
C1_Witness ==
    \E p \in Procs :
        /\ Done(p, {"AddrCreate"}) /\ res[p] = "ok" /\ call[p].def
        /\ DefaultsOf(AddrBefore, call[p].user) # {}
        /\ DefaultsOf(addresses, call[p].user) = {call[p].id}

\* C2: at all times, also between the store calls of one measurement
\* request, every owner has at most one measurement with is_default = true.
C2_MeasAtMostOneDefault == AtMostOneDefault(measurements)

\* C3: two concurrent SetDefault calls of one owner on two different
\* addresses of that owner end with exactly one default address of the
\* owner, one of the two targets.
C3_ConcurrentSetDefaultOneDefault ==
    \A p, q \in Procs :
        (/\ p # q
         /\ Done(p, {"AddrSetDefault"}) /\ Done(q, {"AddrSetDefault"})
         /\ res[p] = "ok" /\ res[q] = "ok"
         /\ call[p].user = call[q].user /\ call[p].id # call[q].id)
        => /\ Cardinality(DefaultsOf(addresses, call[p].user)) = 1
           /\ DefaultsOf(addresses, call[p].user) \subseteq {call[p].id, call[q].id}

\* C4: default-flag operations of one owner are linearizable; in particular
\* two Create calls with is_default = true for the same owner, however they
\* overlap, leave exactly one default address of that owner.
C4_ConcurrentCreateOneDefault ==
    \A p, q \in Procs :
        (/\ p # q
         /\ Done(p, {"AddrCreate"}) /\ Done(q, {"AddrCreate"})
         /\ res[p] = "ok" /\ res[q] = "ok"
         /\ call[p].def /\ call[q].def
         /\ call[p].user = call[q].user)
        => Cardinality(DefaultsOf(addresses, call[p].user)) = 1

\* C5: after a successful address Create or Update with is_default = true,
\* or SetDefault, on item X of owner U (the request running alone), X is
\* default and no other address of U is.
C5_AddrDefaultIsTarget ==
    \A p \in Procs :
        (/\ Done(p, {"AddrCreate", "AddrUpdate", "AddrSetDefault"})
         /\ res[p] = "ok" /\ call[p].def)
        => /\ Owned(addresses, call[p].id, call[p].user)
           /\ DefaultsOf(addresses, call[p].user) = {call[p].id}

\* SetDefault has moved the flag from another address of the owner.
C5_Witness ==
    \E p \in Procs :
        /\ Done(p, {"AddrSetDefault"}) /\ res[p] = "ok"
        /\ DefaultsOf(AddrBefore, call[p].user) # {}
        /\ call[p].id \notin DefaultsOf(AddrBefore, call[p].user)
        /\ DefaultsOf(addresses, call[p].user) = {call[p].id}

\* C6: an address Create, Update or SetDefault of which a step failed (also
\* after its clear step ran) returns an error and leaves the addresses and
\* their default flags as they were before the call.
C6_AddrFailureRollsBack ==
    \A p \in Procs :
        (/\ Done(p, {"AddrCreate", "AddrUpdate", "AddrSetDefault"})
         /\ call[p].at # "-")
        => res[p] = "error" /\ addresses = AddrBefore

\* The insert of a Create failed after its clear statement had cleared a default.
C6_Witness ==
    \E p \in Procs :
        /\ Done(p, {"AddrCreate"}) /\ call[p].at = "insert" /\ call[p].def
        /\ DefaultsOf(AddrBefore, call[p].user) # {}
        /\ res[p] = "error"

\* C7: address SetDefault(id, owner) with an id that does not exist or
\* belongs to another owner fails with NotFound (or with the error of the
\* verifying query itself) and changes no address.
C7_AddrSetDefaultNotFound ==
    \A p \in Procs :
        (/\ Done(p, {"AddrSetDefault"})
         /\ ~Owned(AddrBefore, call[p].id, call[p].user))
        => /\ res[p] = "NotFound" \/ (res[p] = "error" /\ call[p].at = "verify")
           /\ addresses = AddrBefore

\* SetDefault on another owner's address, by an owner who has a default.
C7_Witness ==
    \E p \in Procs :
        /\ Done(p, {"AddrSetDefault"}) /\ res[p] = "NotFound"
        /\ AddrBefore[call[p].id].st = "live"
        /\ AddrBefore[call[p].id].owner # call[p].user
        /\ DefaultsOf(addresses, call[p].user) # {}

\* C8: measurement SetDefault(owner, id) with an id that does not exist or
\* belongs to another owner fails with NotFound and changes no measurement
\* of the owner.
C8_MeasSetDefaultNotFound ==
    \A p \in Procs :
        (/\ Done(p, {"MeasSetDefault"})
         /\ ~Owned(MeasBefore, call[p].id, call[p].user))
        => /\ res[p] \in {"NotFound", "error"}
           /\ measurements = MeasBefore

\* C9: creating a measurement with is_default = true either succeeds, the
\* new measurement being the owner's only default, or reports failure and
\* leaves the measurements as they were.
C9_MeasCreateDefaultAllOrNothing ==
    \A p \in Procs :
        (Done(p, {"MeasCreate"}) /\ call[p].def)
        => IF res[p] = "ok"
           THEN /\ Owned(measurements, call[p].id, call[p].user)
                /\ DefaultsOf(measurements, call[p].user) = {call[p].id}
           ELSE measurements = MeasBefore

\* C10: Delete removes exactly the given item of the caller and changes no
\* other row or flag; an id the caller does not own removes nothing and
\* returns NotFound.
DeleteOutcome(p, t0, t) ==
    IF Owned(t0, call[p].id, call[p].user)
    THEN \/ res[p] = "ok" /\ t = [t0 EXCEPT ![call[p].id] = Deleted]
         \/ res[p] = "error" /\ t = t0
    ELSE res[p] \in {"NotFound", "error"} /\ t = t0

C10_DeleteRemovesOnlyTheItem ==
    \A p \in Procs :
        /\ Done(p, {"AddrDelete"}) =>
              DeleteOutcome(p, AddrBefore, addresses) /\ measurements = MeasBefore
        /\ Done(p, {"MeasDelete"}) =>
              DeleteOutcome(p, MeasBefore, measurements) /\ addresses = AddrBefore

\* The default address of an owner with another address was deleted: the
\* owner is left with no default.
C10_Witness ==
    \E p \in Procs :
        /\ Done(p, {"AddrDelete"}) /\ res[p] = "ok"
        /\ AddrBefore[call[p].id].def
        /\ RowsOf(addresses, call[p].user) # {}
        /\ DefaultsOf(addresses, call[p].user) = {}

WishDone(p, op) == wreq[p].pc = "done" /\ wreq[p].op = op
WishKeyOf(p) == <<wreq[p].user, wreq[p].product, wreq[p].variant>>

\* C11: wishlist add is idempotent: for every owner, product and optional
\* variant, an add (the first or a repeated one, requests in sequence)
\* returns success and leaves exactly one entry with its key; when the key
\* was there already the table is left as it was.
C11_WishAddIdempotent ==
    \A p \in Procs :
        WishDone(p, "Add")
        => /\ wreq[p].res = "ok"
           /\ wishlist_items[WishKeyOf(p)] = 1
           /\ (wseen[WishKeyOf(p)] > 0 => wishlist_items = wseen)

\* C12: in every reachable state, concurrent adds and removes included, no
\* owner has two wishlist entries with the same (product, variant-or-null).
C12_WishNoDuplicateKey == \A k \in WishKeys : wishlist_items[k] <= 1

\* Two adds of one key both passed the existence check; one inserted, the
\* index turned the other away, and the key has one entry.
C12_Witness ==
    \E p, q \in Procs :
        /\ p # q /\ WishDone(p, "Add") /\ WishDone(q, "Add")
        /\ WishKeyOf(p) = WishKeyOf(q)
        /\ wreq[p].res = "ok" /\ wreq[q].res = "error" /\ wreq[q].dup
        /\ wishlist_items[WishKeyOf(p)] = 1

\* C13: wishlist add never returns a duplicate error: when an entry with the
\* same (owner, product, variant) is there at the time of the insert, put
\* there by a concurrent add after the existence check included, the call
\* succeeds as a no-op.
C13_WishAddNeverDuplicateError ==
    \A p \in Procs : (WishDone(p, "Add") /\ wreq[p].dup) => wreq[p].res = "ok"

\* C14: remove(owner, P) with the variant omitted deletes only the entry
\* (P, no variant); every other entry, those of P with a variant included,
\* stays.
C14_WishRemoveNoVariantOnly ==
    \A p \in Procs :
        (WishDone(p, "Remove") /\ wreq[p].query = "")
        => \A k \in WishKeys :
              k # <<wreq[p].user, wreq[p].product, NoVariant>>
              => wishlist_items[k] = wseen[k]

\* C15: exists(owner, P, V?) answers true exactly when the owner has an entry
\* with key (P, V-or-null).
C15_WishExistsExactKey ==
    \A p \in Procs :
        (WishDone(p, "Check") /\ wreq[p].res \in {"true", "false"})
        => (wreq[p].res = "true" <=> wishlist_items[WishKeyOf(p)] > 0)

\* C16: the deduplication key is injective: two (product, variant-or-absent)
\* pairs get the same key exactly when they are the same pair, in UniqueKey,
\* GetUniqueKey and MatchesProduct and in the uniqueness index.
C16_WishKeyInjective ==
    LET same == keyed.a = keyed.b
    IN  /\ keyed.domainKeys # NotComputed
           => (keyed.domainKeys[1] = keyed.domainKeys[2] <=> same)
        /\ keyed.modelKeys # NotComputed
           => (keyed.modelKeys[1] = keyed.modelKeys[2] <=> same)
        /\ keyed.matches # NotComputed => (keyed.matches[1] <=> same)
        /\ keyed.indexKeys # NotComputed
           => (keyed.indexKeys[1] = keyed.indexKeys[2] <=> same)

BisDone(p, op) == breq[p].pc = "done" /\ breq[p].op = op
\* Live subscriptions with the identity key (customer, product, variant-or-null).
KeyRows(t, c, pr, v) ==
    {i \in SubIds : /\ t[i].st = "live" /\ t[i].customer = c
                    /\ t[i].product = pr /\ t[i].variant = v}
BisKeyRows(p, t) == KeyRows(t, breq[p].customer, breq[p].product, breq[p].variant)

\* C17: subscribe is idempotent on a pending subscription: a subscribe whose
\* key has a pending subscription (the one an earlier subscribe returned)
\* returns that subscription's id, leaves it pending, and stores nothing new
\* (requests in sequence, the lookup answered by the store).
C17_SubscribeIdempotent ==
    \A p \in Procs :
        (/\ BisDone(p, "Subscribe") /\ ~breq[p].lookupErr
         /\ \E i \in SubIds : BisKeyRows(p, bseen) = {i} /\ ~bseen[i].notified)
        => /\ breq[p].res = "ok"
           /\ BisKeyRows(p, bseen) = {breq[p].id}
           /\ breq[p].sub = bseen[breq[p].id] /\ ~breq[p].sub.notified
           /\ subscriptions = bseen

\* A subscribe found the pending subscription of its key and returned it.
C17_Witness ==
    \E p \in Procs :
        /\ BisDone(p, "Subscribe") /\ breq[p].res = "ok" /\ ~breq[p].lookupErr
        /\ BisKeyRows(p, bseen) = {breq[p].id}
        /\ ~bseen[breq[p].id].notified

\* C18: in every reachable state there is at most one subscription per
\* identity key (customer, product, variant-or-null), after concurrent
\* subscribes of one key and after a subscribe whose lookup failed included.
C18_OneSubscriptionPerKey ==
    \A c \in Users, pr \in BisProducts, v \in BisVariants :
        Cardinality(KeyRows(subscriptions, c, pr, v)) <= 1

\* C19: a subscription never reverts to pending: once isNotified is true it
\* stays true in every later state in which the subscription still exists,
\* whatever subscribe, unsubscribe, mark-notified, restock event or cleanup
\* runs.
C19_NeverRevertsToPending ==
    [][\A i \in SubIds :
          (/\ subscriptions[i].st = "live" /\ subscriptions[i].notified
           /\ subscriptions'[i].st = "live")
          => subscriptions'[i].notified]_vars

\* A subscribe with the key of a notified subscription has returned it as
\* it found it, notified, and it is still notified.
C19_Witness ==
    \E p \in Procs :
        /\ BisDone(p, "Subscribe") /\ breq[p].res = "ok" /\ breq[p].sub.notified
        /\ breq[p].id \in BisKeyRows(p, subscriptions)
        /\ subscriptions[breq[p].id].notified

\* C20: markNotified is exact and idempotent: the given ids become notified
\* with a notifiedAt, every other subscription is unchanged, and an id that
\* was notified already keeps its isNotified and notifiedAt.
C20_MarkNotifiedIdempotent ==
    \A p \in Procs :
        (BisDone(p, "MarkAsNotified") /\ breq[p].res = "ok")
        => \A i \in SubIds :
              IF i \in breq[p].ids /\ bseen[i].st = "live"
              THEN /\ subscriptions[i].notified
                   /\ subscriptions[i].sentAt # NoTime
                   /\ (bseen[i].notified => subscriptions[i] = bseen[i])
              ELSE subscriptions[i] = bseen[i]

\* C29: unsubscribe is ownership-checked: unsubscribe(C, P, V?) and
\* unsubscribeById(C, id) delete only subscriptions of customer C and leave
\* every other customer's subscription as it was; unsubscribe(C, P) with no
\* variant removes C's no-variant subscription of P and nothing else.
C29_UnsubscribeOwnOnly ==
    \A p \in Procs :
        /\ BisDone(p, "UnsubscribeByID")
           => \A i \in SubIds :
                 subscriptions[i] # bseen[i]
                 => /\ i = breq[p].id /\ bseen[i].customer = breq[p].customer
                    /\ subscriptions[i].st = "deleted"
        /\ BisDone(p, "Unsubscribe")
           => \A i \in SubIds :
                 IF i \in BisKeyRows(p, bseen)
                 THEN subscriptions[i].st = "deleted"
                 ELSE subscriptions[i] = bseen[i]

\* unsubscribeById was called with the id of another customer's subscription.
C29_Witness ==
    \E p \in Procs :
        /\ BisDone(p, "UnsubscribeByID")
        /\ bseen[breq[p].id].st = "live"
        /\ bseen[breq[p].id].customer # breq[p].customer

\* C30: once the subscription of key (C, P, V) is notified and not deleted,
\* a later subscribe(C, P, V) returns it unchanged, still notified, and
\* stores no new subscription; a restock event never takes a subscription
\* that is notified, so none notifies C for that key.
C30_NotifiedKeyStaysNotified ==
    \A p \in Procs :
        /\ (/\ BisDone(p, "Subscribe") /\ ~breq[p].lookupErr
            /\ \E i \in SubIds : BisKeyRows(p, bseen) = {i} /\ bseen[i].notified)
           => /\ breq[p].res = "ok"
              /\ BisKeyRows(p, bseen) = {breq[p].id}
              /\ breq[p].sub = bseen[breq[p].id] /\ breq[p].sub.notified
              /\ subscriptions = bseen
              /\ \A w \in BisVariants :
                    GetByProduct(subscriptions, breq[p].product, w)
                        \cap BisKeyRows(p, subscriptions) = {}
        /\ breq[p].op = "Restocked"
           => \A i \in breq[p].ids : bseen[i].st = "live" /\ ~bseen[i].notified

\* A subscribe was made for a key whose only subscription is notified.
C30_Witness ==
    \E p \in Procs :
        /\ BisDone(p, "Subscribe") /\ ~breq[p].lookupErr
        /\ BisKeyRows(p, bseen) = {breq[p].id}
        /\ bseen[breq[p].id].notified
        /\ subscriptions = bseen

\* The event being handled has had its subscriptions read from the store.
Resolved == notifier.queries > 0 /\ notifier.outcome # "queryError"
\* The subscription is stored, not deleted, and pending.
Pending(t, i) == t[i].st = "live" /\ ~t[i].notified
\* The subscription is of the product and variant the message names.
Named(t, i, e) ==
    /\ String(t[i].product) = e.product_id
    /\ e.variant_id # "" => t[i].variant # NoVariant /\ String(t[i].variant) = e.variant_id
\* The pending subscriptions the message is about.
Matching(t, e) == {i \in SubIds : Pending(t, i) /\ Named(t, i, e)}

\* C21: pendingForProduct(P, V?) returns exactly the stored, non-deleted
\* subscriptions of product P that are not notified and, when V is given,
\* are of variant V; with V omitted, those of every variant and of none.
C21_PendingForProductExact ==
    Resolved => notifier.subs = Matching(nseen, notifier.event)

\* A query that names a variant returned a subscription of it and left out
\* a pending subscription of the same product without that variant.
C21_Witness ==
    /\ Resolved /\ notifier.event.variant_id # ""
    /\ notifier.subs # {}
    /\ \E j \in SubIds \ notifier.subs :
          Pending(nseen, j) /\ String(nseen[j].product) = notifier.event.product_id

\* Text that is an identifier.
IsID(s) == s \in {String(u) : u \in UUIDs}
\* The message cannot be parsed, or its product or variant is no identifier.
Malformed(e) == ~e.json \/ ~IsID(e.product_id) \/ (e.variant_id # "" /\ ~IsID(e.variant_id))
\* A message is being handled, or was and the callback has yet to return.
Handling == notifier.pc # "idle"

\* C28: a restock event whose payload cannot be parsed, or whose product or
\* variant identifier is not valid, is dropped: no subscription query, no
\* notification attempt, no change to any subscription; and an event that
\* is well formed is never dropped, whatever was dropped before it.
C28_MalformedEventDropped ==
    /\ (Handling /\ Malformed(notifier.event))
       => /\ notifier.pc = "done" /\ notifier.outcome = "dropped"
          /\ notifier.queries = 0 /\ notifier.tries = NoTries
          /\ notifier.sent = {} /\ notifier.marks = 0
          /\ subscriptions = nseen
    /\ (Handling /\ ~Malformed(notifier.event)) => notifier.outcome # "dropped"

\* After a dropped event, the next event has had its subscriptions read and
\* one of them sent a notification.
C28_Witness ==
    /\ notifier.last = "dropped"
    /\ Resolved /\ notifier.sent # {}

\* The loop over the subscriptions found has ended, with a client to send.
Attempted == Resolved /\ notifier.client = "set" /\ notifier.pc \in {"attempted", "done"}
\* Every other subscription is as it was when the event arrived.
OthersUntouched(S) == \A i \in SubIds \ S : subscriptions[i] = nseen[i]

\* C22: handling a restock event that names product P and variant V makes
\* exactly one notification attempt for each pending subscription of (P, V)
\* and none for any other; when every attempt succeeds and the mark is
\* stored, exactly those subscriptions are notified and every other
\* subscription is as before.
C22_FanOutExact ==
    /\ notifier.client = "set"
       => \A i \in SubIds :
             /\ notifier.tries[i] <= 1
             /\ notifier.tries[i] = 1 => i \in Matching(nseen, notifier.event)
    /\ Attempted
       => \A i \in Matching(nseen, notifier.event) : notifier.tries[i] = 1
    /\ (/\ Attempted /\ notifier.outcome = "marked"
        /\ notifier.sent = Matching(nseen, notifier.event))
       => /\ \A i \in notifier.sent : subscriptions[i].st = "live" /\ subscriptions[i].notified
          /\ OthersUntouched(notifier.sent)

\* Every attempt of an event succeeded and was marked while a subscription
\* of another variant stayed pending.
C22_Witness ==
    /\ Attempted /\ notifier.outcome = "marked"
    /\ notifier.sent = Matching(nseen, notifier.event)
    /\ \A i \in notifier.sent : subscriptions[i].notified
    /\ \E j \in SubIds \ notifier.sent : Pending(nseen, j) /\ Pending(subscriptions, j)

\* C23: delivery failure is isolated per subscription: when the collaborator
\* fails for some matching subscriptions and succeeds for others, every
\* matching subscription is still attempted, and once the event is processed
\* exactly those whose delivery succeeded are notified; the failed ones are
\* as they were, pending.
C23_DeliveryFailureIsolated ==
    (Attempted /\ notifier.outcome \in {"marked", "unsent"})
    => \A i \in Matching(nseen, notifier.event) :
          /\ notifier.tries[i] = 1
          /\ IF i \in notifier.sent
             THEN subscriptions[i].st = "live" /\ subscriptions[i].notified
             ELSE subscriptions[i] = nseen[i] /\ ~subscriptions[i].notified

\* One delivery of an event failed, another succeeded, and the event is
\* processed.
C23_Witness ==
    /\ Attempted /\ notifier.outcome = "marked"
    /\ \E i, j \in Matching(nseen, notifier.event) :
          /\ i \in notifier.sent /\ subscriptions[i].notified
          /\ j \notin notifier.sent /\ notifier.tries[j] = 1 /\ ~subscriptions[j].notified

C25_NotifiedAtMostOnce == outbox.redelivered = {}

\* C26: per restock event the notifier goes received, subscriptions
\* resolved, notifications attempted, notified subset committed, in that
\* order: markNotified is called at most once per event, only after the
\* delivery attempt of every matching subscription has finished, and with
\* exactly the ids whose delivery succeeded.
C26_EventStepsInOrder ==
    /\ notifier.queries <= 1 /\ notifier.marks <= 1
    /\ notifier.pc = "received" => notifier.queries = 0
    /\ notifier.queries = 0
       => notifier.tries = NoTries /\ notifier.sent = {} /\ notifier.marks = 0
    /\ notifier.pc = "resolved" => notifier.queries = 1 /\ notifier.marks = 0
    /\ notifier.marks = 1
       => /\ notifier.pc = "done" /\ notifier.todo = {}
          /\ notifier.client = "set"
             => /\ \A i \in notifier.subs : notifier.tries[i] = 1
                /\ notifier.marked = notifier.sent

\* markNotified was called after two subscriptions were attempted, with
\* the one that succeeded.
C26_Witness ==
    /\ notifier.marks = 1 /\ notifier.client = "set"
    /\ Cardinality(notifier.subs) = 2
    /\ \A i \in notifier.subs : notifier.tries[i] = 1
    /\ Cardinality(notifier.marked) = 1

\* C27: if markNotified fails with a storage error after deliveries
\* succeeded, the handler neither rolls back nor retries: the delivered
\* subscriptions are still pending in the registry, no subscription is
\* partly marked, and the subscriber goes on to process later events.
C27_MarkFailureLeavesPending ==
    /\ notifier.outcome = "markFailed"
       => /\ notifier.pc = "done" /\ notifier.marks = 1
          /\ notifier.marked # {}
          /\ \A i \in notifier.marked : ~subscriptions[i].notified
          /\ subscriptions = nseen
    /\ (notifier.last = "markFailed" /\ Resolved)
       => notifier.subs = Matching(nseen, notifier.event)

\* After an event whose mark failed, the next event found a subscription
\* that had been delivered and is still pending.
C27_Witness ==
    /\ notifier.last = "markFailed" /\ notifier.client = "set"
    /\ Resolved
    /\ \E i \in notifier.subs \cap outbox.delivered : Pending(subscriptions, i)
====
